---- MODULE Spec2Model ----
(***************************************************************************)
(* Model of package httpreq (src/httpreq/request.go): the Request builder, *)
(* its setters, Dispatch and DispatchScan.                                 *)
(*                                                                         *)
(* Strings that the code inspects character by character (url, the path    *)
(* parameter values) are sequences of one-character strings.  Strings the  *)
(* code only compares or passes on (method, header names, proxy url) are   *)
(* TLA+ strings.                                                           *)
(***************************************************************************)
EXTENDS Integers, Sequences, FiniteSets, TLC

VARIABLES
    url, method, headers, pathParams, queryParams, unescapeQueryParams,
    httpcli, proxyURL, transport, timeout, contentType, verbose,
    username, password, body, bodyStruct, bodyValues,
    op, err, res, sent, tbody, encoded, logged, supplied, ncalls, nsets

fields == <<url, method, headers, pathParams, queryParams, unescapeQueryParams,
            httpcli, proxyURL, transport, timeout, contentType, verbose,
            username, password, body, bodyStruct, bodyValues>>

vars == <<url, method, headers, pathParams, queryParams, unescapeQueryParams,
          httpcli, proxyURL, transport, timeout, contentType, verbose,
          username, password, body, bodyStruct, bodyValues,
          op, err, res, sent, tbody, encoded, logged, supplied, ncalls, nsets>>

(***************************************************************************)
(* Bounds of the model.                                                    *)
(***************************************************************************)
MaxUrlLen == 4
MaxParams == 2
MaxCalls == 2
MaxSets == 2

(***************************************************************************)
(* Constants of the package.                                               *)
(***************************************************************************)
ContentTypeJSON == "application/json"
ContentTypeURLENCODED == "application/x-www-form-urlencoded"
pathParamIndicator == <<":">>
urlSeparator == <<"/">>
urlPathParamSeparator == <<"/", ":">>
defaultTimeout == 30

errPathParamConflift == "path parameter placeholder and actual vaues count doesn't match"
errorMethodIsEmpty == "request method is not set"
errMethodUnknown == "unknown request METHOD"
errorResponseStructIsNil == "response struct is nil"
errNoPathParamValueSet == "no path param value passed"
errPathParamPassedIncorrect == "not enough path parameter values passed"

\* The wrapped errors of Dispatch and DispatchScan, and a run-time panic.
errMarshal == "failed to marshall json request"
errCreateRequest == "failed to create request"
errQueryUnescape == "query unescape failed"
errProxyParse == "failed to parse proxy url"
errDispatchFailed == "dispatching request failed"
errReadBody == "error reading body"
errDecode == "failed to decode response"
panicIndexOutOfRange == "panic: runtime error: index out of range"
noError == "nil"

(***************************************************************************)
(* The string functions of package strings that validatePathParams uses.   *)
(***************************************************************************)
MatchAt(s, p, i) ==
    /\ i + Len(p) - 1 <= Len(s)
    /\ \A j \in 1..Len(p) : s[i + j - 1] = p[j]

HasPrefix(s, p) == MatchAt(s, p, 1)

Contains(s, p) == \E i \in 1..(Len(s) + 1) : MatchAt(s, p, i)

\* strings.Count: the number of non-overlapping occurrences, scanning left to right.
RECURSIVE CountFrom(_, _, _)
CountFrom(s, p, i) ==
    IF i > Len(s) THEN 0
    ELSE IF MatchAt(s, p, i) THEN 1 + CountFrom(s, p, i + Len(p))
    ELSE CountFrom(s, p, i + 1)

Count(s, p) == CountFrom(s, p, 1)

\* strings.Split: cur is the segment being read; the result always has
\* Count(s, sep) + 1 segments.
RECURSIVE SplitFrom(_, _, _, _)
SplitFrom(s, sep, i, cur) ==
    IF i > Len(s) THEN <<cur>>
    ELSE IF MatchAt(s, sep, i) THEN <<cur>> \o SplitFrom(s, sep, i + Len(sep), <<>>)
    ELSE SplitFrom(s, sep, i + 1, Append(cur, s[i]))

Split(s, sep) == SplitFrom(s, sep, 1, <<>>)

RECURSIVE Join(_, _)
Join(segs, sep) ==
    IF Len(segs) = 0 THEN <<>>
    ELSE IF Len(segs) = 1 THEN segs[1]
    ELSE segs[1] \o sep \o Join(Tail(segs), sep)

(***************************************************************************)
(* validatePathParams.  The loop over the segments: idx is the number of   *)
(* values consumed so far; reading pathParams[idx] with idx >= len is a    *)
(* run-time panic, which ends the loop.                                    *)
(***************************************************************************)
RECURSIVE SubstituteFrom(_, _, _, _)
SubstituteFrom(splits, params, i, idx) ==
    IF i > Len(splits) THEN [panic |-> FALSE, idx |-> idx, splits |-> splits]
    ELSE IF HasPrefix(splits[i], pathParamIndicator)
         THEN IF idx >= Len(params)
              THEN [panic |-> TRUE, idx |-> idx, splits |-> splits]
              ELSE SubstituteFrom([splits EXCEPT ![i] = params[idx + 1]],
                                  params, i + 1, idx + 1)
         ELSE SubstituteFrom(splits, params, i + 1, idx)

\* Mutant: the segments are substituted and stored before the count is checked.
validatePathParamsEager(u, params) ==
    IF Contains(u, urlPathParamSeparator)
    THEN IF Len(params) = 0
         THEN [err |-> errNoPathParamValueSet, url |-> u]
         ELSE LET s == SubstituteFrom(Split(u, urlSeparator), params, 1, 0) IN
              IF Count(u, urlPathParamSeparator) # Len(params)
              THEN [err |-> errPathParamPassedIncorrect,
                    url |-> Join(s.splits, urlSeparator)]
              ELSE IF s.panic THEN [err |-> panicIndexOutOfRange, url |-> u]
              ELSE IF s.idx # Len(params)
              THEN [err |-> errPathParamConflift, url |-> u]
              ELSE [err |-> noError, url |-> Join(s.splits, urlSeparator)]
    ELSE [err |-> noError, url |-> u]

\* Mutant: the substituted url is not stored in r.url.
validatePathParamsNoStore(u, params) ==
    IF Contains(u, urlPathParamSeparator)
    THEN IF Len(params) = 0
         THEN [err |-> errNoPathParamValueSet, url |-> u]
         ELSE IF Count(u, urlPathParamSeparator) # Len(params)
         THEN [err |-> errPathParamPassedIncorrect, url |-> u]
         ELSE LET s == SubstituteFrom(Split(u, urlSeparator), params, 1, 0) IN
              IF s.panic THEN [err |-> panicIndexOutOfRange, url |-> u]
              ELSE IF s.idx # Len(params)
              THEN [err |-> errPathParamConflift, url |-> u]
              ELSE [err |-> noError, url |-> u]
    ELSE [err |-> noError, url |-> u]

\* The result: the error returned (or the panic raised) and the value of
\* r.url afterwards.
validatePathParams(u, params) ==
    IF Contains(u, urlPathParamSeparator)
    THEN IF Len(params) = 0
         THEN [err |-> errNoPathParamValueSet, url |-> u]
         ELSE IF Count(u, urlPathParamSeparator) # Len(params)
         THEN [err |-> errPathParamPassedIncorrect, url |-> u]
         ELSE LET s == SubstituteFrom(Split(u, urlSeparator), params, 1, 0) IN
              IF s.panic THEN [err |-> panicIndexOutOfRange, url |-> u]
              ELSE IF s.idx # Len(params)
              THEN [err |-> errPathParamConflift, url |-> u]
              ELSE [err |-> noError, url |-> Join(s.splits, urlSeparator)]
    ELSE [err |-> noError, url |-> u]

ValidMethods ==
    {"GET", "POST", "PUT", "DELETE", "HEAD", "OPTIONS", "CONNECT", "TRACE", "PATCH"}

validateMethod(m) ==
    IF m = "" THEN errorMethodIsEmpty
    ELSE IF m \in ValidMethods THEN noError
    ELSE errMethodUnknown

(***************************************************************************)
(* Values of the fields.  A nil reader, struct or url.Values is "nil".     *)
(***************************************************************************)
NilBody == "nil"
NoTransport == [kind |-> "nil", proxy |-> ""]
DefaultTransport == [kind |-> "default", proxy |-> ""]
NoClient == [by |-> "nil", Transport |-> NoTransport, Timeout |-> 0]
\* A client the caller configured itself and passed to HTTPClient.
CallerClient == [by |-> "caller", Transport |-> [kind |-> "custom", proxy |-> ""],
                 Timeout |-> 7]

HeaderNames == {"Authorization", "Content-Type"}
NoHeaders == [n \in HeaderNames |-> <<>>]

\* http.Header.Add appends the value to the values of the name.
HeaderAdd(h, k, v) == [h EXCEPT ![k] = Append(@, v)]

\* json.Marshal fails on a value that has no JSON encoding (a channel).
jsonMarshal(v) == [err |-> (v = "chan"), bits |-> <<"json", v>>]
\* url.Values.Encode.
formEncode(v) == <<"form", v>>
\* url.Parse of the proxy url fails on a malformed escape.
ProxyParses(p) == p # "%zz"

\* basicAuth: base64 of username + ":" + password.
basicAuth(u, p) == <<"base64", u, ":", p>>

\* The value of the Authorization header: "Basic " + basicAuth(...).
basicValue(u, p) == <<"Basic">> \o basicAuth(u, p)

(***************************************************************************)
(* Dispatch, lines 198-213: the body and the content type of the request.  *)
(* encoded is the set of encoders the code invoked.                        *)
(***************************************************************************)
\* Mutant: the form values are looked at before the struct.
resolveBodyFormFirst(b, ct, bs, bv) ==
    IF b # NilBody
    THEN [err |-> noError, body |-> <<"reader", b>>, contentType |-> ct, encoded |-> {}]
    ELSE IF bv # NilBody
    THEN [err |-> noError, body |-> formEncode(bv),
          contentType |-> ContentTypeURLENCODED, encoded |-> {"form"}]
    ELSE IF bs # NilBody
    THEN LET m == jsonMarshal(bs) IN
         IF m.err
         THEN [err |-> errMarshal, body |-> <<>>, contentType |-> ct,
               encoded |-> {"json"}]
         ELSE [err |-> noError, body |-> m.bits, contentType |-> ContentTypeJSON,
               encoded |-> {"json"}]
    ELSE [err |-> noError, body |-> <<>>, contentType |-> ct, encoded |-> {}]

resolveBody(b, ct, bs, bv) ==
    IF b # NilBody
    THEN [err |-> noError, body |-> <<"reader", b>>, contentType |-> ct, encoded |-> {}]
    ELSE IF bs # NilBody
    THEN LET m == jsonMarshal(bs) IN
         IF m.err
         THEN [err |-> errMarshal, body |-> <<>>, contentType |-> ct,
               encoded |-> {"json"}]
         ELSE [err |-> noError, body |-> m.bits, contentType |-> ContentTypeJSON,
               encoded |-> {"json"}]
    ELSE IF bv # NilBody
    THEN [err |-> noError, body |-> formEncode(bv),
          contentType |-> ContentTypeURLENCODED, encoded |-> {"form"}]
    ELSE [err |-> noError, body |-> <<>>, contentType |-> ct, encoded |-> {}]

(***************************************************************************)
(* Dispatch, lines 221-236: the headers of the request, in the order the   *)
(* code adds them.  hs is r.headers, a set of <<name, value>> pairs with   *)
(* one value per name; a header value is a tuple of strings.               *)
(***************************************************************************)
RECURSIVE AddAll(_, _)
AddAll(h, hs) ==
    IF hs = {} THEN h
    ELSE LET kv == CHOOSE x \in hs : TRUE IN
         AddAll(HeaderAdd(h, kv[1], kv[2]), hs \ {kv})

requestHeaders(user, pass, ct, hs) ==
    LET h1 == IF user # "" \/ pass # ""
              THEN HeaderAdd(NoHeaders, "Authorization", basicValue(user, pass))
              ELSE NoHeaders
        h2 == IF ct # "" THEN HeaderAdd(h1, "Content-Type", <<ct>>) ELSE h1
    IN AddAll(h2, hs)

(***************************************************************************)
(* Dispatch, lines 238-254: the raw query of the request.  The encoded     *)
(* query never fails to unescape, so that error is not reachable.          *)
(***************************************************************************)
requestQuery(qp, unescape) ==
    IF qp # {}
    THEN [params |-> qp, form |-> IF unescape THEN "unescaped" ELSE "encoded"]
    ELSE [params |-> {}, form |-> "none"]

(***************************************************************************)
(* Dispatch, lines 256-278: the transport and the client.  The result      *)
(* gives r.transport and r.httpcli as the code leaves them.                *)
(***************************************************************************)
selectClient(cli, purl, tmo) ==
    IF cli = NoClient /\ purl # "" /\ ~ProxyParses(purl)
    THEN [err |-> errProxyParse, transport |-> DefaultTransport, httpcli |-> cli]
    ELSE LET t == IF cli = NoClient /\ purl # ""
                  THEN [kind |-> "proxy", proxy |-> purl]
                  ELSE DefaultTransport
         IN [err |-> noError,
             transport |-> t,
             httpcli |-> IF cli = NoClient
                         THEN [by |-> "dispatch", Transport |-> t,
                               Timeout |-> IF tmo > 0 THEN tmo ELSE defaultTimeout]
                         ELSE cli]

(***************************************************************************)
(* Streams: a response body is a byte sequence read from position pos;     *)
(* fails says that reading it ends in an error instead of end of file.     *)
(***************************************************************************)
Stream(data, fails) == [data |-> data, pos |-> 0, closed |-> FALSE, fails |-> fails]

Remaining(s) == SubSeq(s.data, s.pos + 1, Len(s.data))

\* ioutil.ReadAll.
ReadAll(s) ==
    [err |-> s.fails, bytes |-> Remaining(s), stream |-> [s EXCEPT !.pos = Len(s.data)]]

Close(s) == [s EXCEPT !.closed = TRUE]

\* Mutant: the new body is a reader that is already at its end.
newBodyDrained(resbody) == [Stream(resbody, FALSE) EXCEPT !.pos = Len(resbody)]

\* Dispatch, line 303: res.Body = ioutil.NopCloser(bytes.NewBuffer(resbody)).
newBody(resbody) == Stream(resbody, FALSE)

ValidJSON == {<<"{", "}">>}
Bodies == {<<>>, <<"{", "}">>, <<"x">>}

\* What the collaborators do in one call: whether http.NewRequest accepts the
\* url, what the client's Do returns (a response, an error, or both) and the
\* body of the response.
\* The body matters only when Do returns a response without an error, and Do is
\* reached only when http.NewRequest accepted the url.
Envs ==
    [newreq : {TRUE}, rt : {"ok"}, data : Bodies, fails : BOOLEAN]
    \cup [newreq : {TRUE}, rt : {"errres"}, data : {<<>>}, fails : {FALSE}]
    \cup [newreq : BOOLEAN, rt : {"err"}, data : {<<>>}, fails : {FALSE}]

\* The server of the package's tests: 200 with an empty body.
TestServer == {[newreq |-> TRUE, rt |-> "ok", data |-> <<>>, fails |-> FALSE]}

(***************************************************************************)
(* Dispatch, lines 187-306, as a function of the fields and of what the    *)
(* collaborators do (e).  The result gives the fields Dispatch assigns     *)
(* (url, transport, httpcli), the error and the response it returns, the   *)
(* requests the client sent, the body stream the transport returned, the   *)
(* encoders the body resolution invoked and the lines written to the log.  *)
(***************************************************************************)
Outcome(u, t, c, e, r, s, tb, enc, lg) ==
    [url |-> u, transport |-> t, httpcli |-> c, err |-> e, res |-> r, sent |-> s,
     tbody |-> tb, encoded |-> enc, logged |-> lg]

\* Lines 280-282 and 300: what verbose writes to the log.
requestLog(u) ==
    IF verbose THEN <<[msg |-> "dispatching request to", data |-> u]>> ELSE <<>>

responseLog(resbody) == [msg |-> "dispatch response", data |-> resbody]

\* Lines 293-305: the response is there and the client returned no error.
finish(u, cl, req, e, enc) ==
    LET tb == Stream(e.data, e.fails)
        viaT == [Status |-> "200 OK", Body |-> "transport", buffer |-> newBody(<<>>)]
    IN IF verbose
       THEN LET ra == ReadAll(tb) IN
            IF ra.err
            THEN Outcome(u, cl.transport, cl.httpcli, errReadBody, <<>>, <<req>>,
                         <<ra.stream>>, enc, requestLog(u))
            ELSE Outcome(u, cl.transport, cl.httpcli, noError,
                         <<[viaT EXCEPT !.Body = "buffer",
                                        !.buffer = newBody(ra.bytes)]>>,
                         <<req>>, <<ra.stream>>, enc,
                         Append(requestLog(u), responseLog(ra.bytes)))
       ELSE Outcome(u, cl.transport, cl.httpcli, noError, <<viaT>>, <<req>>,
                    <<tb>>, enc, <<>>)

\* Lines 284-291: the client's Do.
send(u, cl, req, e, enc) ==
    IF e.rt = "err"
    THEN Outcome(u, cl.transport, cl.httpcli, errDispatchFailed, <<>>, <<req>>,
                 <<>>, enc, requestLog(u))
    ELSE IF e.rt = "errres"
    THEN Outcome(u, cl.transport, cl.httpcli, errDispatchFailed, <<>>, <<req>>,
                 <<Close(Stream(e.data, e.fails))>>, enc, requestLog(u))
    ELSE finish(u, cl, req, e, enc)

\* Lines 198-278: from the body to the client.
prepare(u, e) ==
    LET rb == resolveBody(body, contentType, bodyStruct, bodyValues) IN
    IF rb.err # noError
    THEN Outcome(u, transport, httpcli, rb.err, <<>>, <<>>, <<>>, rb.encoded, <<>>)
    ELSE IF ~e.newreq \/ HasPrefix(u, pathParamIndicator)
    THEN \* http.NewRequest: a url that starts with ":" has no protocol scheme
         Outcome(u, transport, httpcli, errCreateRequest, <<>>, <<>>, <<>>, rb.encoded,
                 <<>>)
    ELSE LET cl == selectClient(httpcli, proxyURL, timeout)
             req == [method |-> method, url |-> u, body |-> rb.body,
                     header |-> requestHeaders(username, password, rb.contentType,
                                               headers),
                     query |-> requestQuery(queryParams, unescapeQueryParams),
                     client |-> cl.httpcli]
         IN IF cl.err # noError
            THEN Outcome(u, cl.transport, cl.httpcli, cl.err, <<>>, <<>>, <<>>,
                         rb.encoded, <<>>)
            ELSE send(u, cl, req, e, rb.encoded)

\* Mutant: the path parameters are validated before the method.
dispatchPathFirst(e) ==
    LET vp == validatePathParams(url, pathParams) IN
    IF vp.err # noError
    THEN Outcome(vp.url, transport, httpcli, vp.err, <<>>, <<>>, <<>>, {}, <<>>)
    ELSE LET me == validateMethod(method) IN
         IF me # noError
         THEN Outcome(vp.url, transport, httpcli, me, <<>>, <<>>, <<>>, {}, <<>>)
         ELSE prepare(vp.url, e)

dispatch(e) ==
    LET me == validateMethod(method) IN
    IF me # noError
    THEN Outcome(url, transport, httpcli, me, <<>>, <<>>, <<>>, {}, <<>>)
    ELSE LET vp == validatePathParams(url, pathParams) IN
         IF vp.err # noError
         THEN Outcome(vp.url, transport, httpcli, vp.err, <<>>, <<>>, <<>>, {}, <<>>)
         ELSE prepare(vp.url, e)

(***************************************************************************)
(* DispatchScan, lines 166-184.  The decoder reads the body of the         *)
(* response; the deferred Close closes that body.  Nothing but the error   *)
(* is returned to the caller.                                              *)
(***************************************************************************)
decodeFails(ra) == ra.err \/ ra.bytes \notin ValidJSON

\* Mutant: the target is checked after the dispatch.
dispatchScanLate(target, e) ==
    LET o == dispatch(e) IN
    IF target = "nil"
    THEN [o EXCEPT !.err = errorResponseStructIsNil, !.res = <<>>]
    ELSE IF o.err # noError
    THEN o
    ELSE LET r == o.res[1]
             ra == ReadAll(IF r.Body = "transport" THEN o.tbody[1] ELSE r.buffer)
         IN [o EXCEPT !.err = IF decodeFails(ra) THEN errDecode ELSE noError,
                      !.res = <<>>,
                      !.tbody = IF r.Body = "transport"
                                THEN <<Close(ra.stream)>>
                                ELSE o.tbody]

dispatchScan(target, e) ==
    IF target = "nil"
    THEN Outcome(url, transport, httpcli, errorResponseStructIsNil, <<>>, <<>>,
                 <<>>, {}, <<>>)
    ELSE LET o == dispatch(e) IN
         IF o.err # noError
         THEN o
         ELSE LET r == o.res[1]
                  ra == ReadAll(IF r.Body = "transport" THEN o.tbody[1] ELSE r.buffer)
              IN [o EXCEPT !.err = IF decodeFails(ra) THEN errDecode ELSE noError,
                           !.res = <<>>,
                           !.tbody = IF r.Body = "transport"
                                     THEN <<Close(ra.stream)>>
                                     ELSE o.tbody]

(***************************************************************************)
(* The state.  op, err, res, sent, tbody and encoded describe the most     *)
(* recent call on the builder: which method it was, the error and response *)
(* it returned, the requests it sent, the body stream the transport        *)
(* returned to it, the encoders it invoked and what it logged.  supplied   *)
(* says whether HTTPClient was ever called with a client.                  *)
(***************************************************************************)
Methods == {"", "GET", "test"}

Chars == {"/", ":", "a"}

Strings(C, n) == UNION {[1..k -> C] : k \in 0..n}

Urls == Strings(Chars, MaxUrlLen)

\* The values of path parameters: clean ones, and ones that start with ":"
\* or hold "/:".
PathValues == {<<>>, <<"x">>, <<"y", "/">>, <<":">>, <<"/", ":">>}

ParamSeqs == Strings(PathValues, MaxParams)

New(m, u) ==
    /\ method = m
    /\ url = u
    /\ headers = {}
    /\ queryParams = {}
    /\ pathParams = <<>>
    /\ unescapeQueryParams = FALSE
    /\ httpcli = NoClient
    /\ proxyURL = ""
    /\ transport = NoTransport
    /\ timeout = 0
    /\ contentType = ""
    /\ verbose = FALSE
    /\ username = ""
    /\ password = ""
    /\ body = NilBody
    /\ bodyStruct = NilBody
    /\ bodyValues = NilBody
    /\ op = "New"
    /\ err = noError
    /\ res = <<>>
    /\ sent = <<>>
    /\ tbody = <<>>
    /\ encoded = {}
    /\ logged = <<>>
    /\ supplied = FALSE
    /\ ncalls = 0
    /\ nsets = 0

\* What a call leaves behind.
Returns(name, o) ==
    /\ ncalls < MaxCalls
    /\ ncalls' = ncalls + 1
    /\ op' = name
    /\ url' = o.url
    /\ transport' = o.transport
    /\ httpcli' = o.httpcli
    /\ err' = o.err
    /\ res' = o.res
    /\ sent' = o.sent
    /\ tbody' = o.tbody
    /\ encoded' = o.encoded
    /\ logged' = o.logged
    /\ UNCHANGED <<supplied, method, headers, pathParams, queryParams, unescapeQueryParams,
                   proxyURL, timeout, contentType, verbose, username, password,
                   body, bodyStruct, bodyValues, nsets>>

DispatchVia(E) == \E e \in E : Returns("Dispatch", dispatch(e))

\* With a nil target the collaborators are never reached.
DispatchScanVia(E) ==
    \E e \in E, target \in {"nil", "ptr"} :
        /\ target = "nil" => e = CHOOSE x \in E : TRUE
        /\ Returns(IF target = "nil" THEN "DispatchScan(nil)" ELSE "DispatchScan(ptr)",
                   dispatchScan(target, e))

Dispatch == DispatchVia(Envs)
DispatchScan == DispatchScanVia(Envs)

\* A setter returns the builder; the record of the previous call is dropped.
Sets ==
    /\ nsets < MaxSets
    /\ nsets' = nsets + 1
    /\ op' = "Set"
    /\ err' = noError
    /\ res' = <<>>
    /\ sent' = <<>>
    /\ tbody' = <<>>
    /\ encoded' = {}
    /\ logged' = <<>>
    /\ UNCHANGED ncalls

\* A map with one value per key: the entry of the key is replaced.
Upsert(m, k, v) == {kv \in m : kv[1] # k} \cup {<<k, v>>}

HTTPClient ==
    /\ Sets
    /\ \E c \in {NoClient, CallerClient} :
           httpcli' = c /\ supplied' = (supplied \/ c # NoClient)
    /\ UNCHANGED <<url, method, headers, pathParams, queryParams, unescapeQueryParams,
                   proxyURL, transport, timeout, contentType, verbose, username,
                   password, body, bodyStruct, bodyValues>>

ProxyURL ==
    /\ Sets
    /\ \E p \in {"http://proxy", "%zz"} : proxyURL' = p
    /\ UNCHANGED <<supplied, url, method, headers, pathParams, queryParams, unescapeQueryParams,
                   httpcli, transport, timeout, contentType, verbose, username,
                   password, body, bodyStruct, bodyValues>>

PathParams ==
    /\ Sets
    /\ \E params \in {<<<<"x">>>>, <<<<"x">>, <<"y", "/">>>>} : pathParams' = params
    /\ UNCHANGED <<supplied, url, method, headers, queryParams, unescapeQueryParams,
                   httpcli, proxyURL, transport, timeout, contentType, verbose,
                   username, password, body, bodyStruct, bodyValues>>

QueryParam ==
    /\ Sets
    /\ \E k \in {"wrb"}, v \in {"true"} : queryParams' = Upsert(queryParams, k, v)
    /\ UNCHANGED <<supplied, url, method, headers, pathParams, unescapeQueryParams,
                   httpcli, proxyURL, transport, timeout, contentType, verbose,
                   username, password, body, bodyStruct, bodyValues>>

Header ==
    /\ Sets
    /\ \E kv \in {<<"Content-Type", <<"text/plain">>>>,
                  <<"Authorization", <<"ksjhf23j1lkj23">>>>} :
           headers' = Upsert(headers, kv[1], kv[2])
    /\ UNCHANGED <<supplied, url, method, pathParams, queryParams, unescapeQueryParams,
                   httpcli, proxyURL, transport, timeout, contentType, verbose,
                   username, password, body, bodyStruct, bodyValues>>

BodyStruct ==
    /\ Sets
    /\ \E v \in {"obj", "chan"} : bodyStruct' = v
    /\ UNCHANGED <<supplied, url, method, headers, pathParams, queryParams, unescapeQueryParams,
                   httpcli, proxyURL, transport, timeout, contentType, verbose,
                   username, password, body, bodyValues>>

BodyValues ==
    /\ Sets
    /\ \E v \in {"values"} : bodyValues' = v
    /\ UNCHANGED <<supplied, url, method, headers, pathParams, queryParams, unescapeQueryParams,
                   httpcli, proxyURL, transport, timeout, contentType, verbose,
                   username, password, body, bodyStruct>>

Body ==
    /\ Sets
    /\ \E v \in {"reader"} : body' = v
    /\ UNCHANGED <<supplied, url, method, headers, pathParams, queryParams, unescapeQueryParams,
                   httpcli, proxyURL, transport, timeout, contentType, verbose,
                   username, password, bodyStruct, bodyValues>>

Timeout ==
    /\ Sets
    /\ \E d \in {-1, 5} : timeout' = d
    /\ UNCHANGED <<supplied, url, method, headers, pathParams, queryParams, unescapeQueryParams,
                   httpcli, proxyURL, transport, contentType, verbose, username,
                   password, body, bodyStruct, bodyValues>>

UnescapeQueryParams ==
    /\ Sets
    /\ \E b \in {TRUE} : unescapeQueryParams' = b
    /\ UNCHANGED <<supplied, url, method, headers, pathParams, queryParams, httpcli, proxyURL,
                   transport, timeout, contentType, verbose, username, password,
                   body, bodyStruct, bodyValues>>

Verbose ==
    /\ Sets
    /\ \E b \in {TRUE} : verbose' = b
    /\ UNCHANGED <<supplied, url, method, headers, pathParams, queryParams, unescapeQueryParams,
                   httpcli, proxyURL, transport, timeout, contentType, username,
                   password, body, bodyStruct, bodyValues>>

BasicAuth ==
    /\ Sets
    /\ \E up \in {<<"foo", "foopazz">>, <<"", "foopazz">>} :
           username' = up[1] /\ password' = up[2]
    /\ UNCHANGED <<supplied, url, method, headers, pathParams, queryParams, unescapeQueryParams,
                   httpcli, proxyURL, transport, timeout, contentType, verbose,
                   body, bodyStruct, bodyValues>>

(***************************************************************************)
(* Spec: a builder made by New for a few urls, every setter, Dispatch and  *)
(* DispatchScan against collaborators that may do anything.                *)
(***************************************************************************)
Init ==
    \E m \in Methods, u \in {<<"/", "a">>, <<"/", ":", "a">>} :
        New(m, u)

Next ==
    \/ HTTPClient
    \/ ProxyURL
    \/ PathParams
    \/ QueryParam
    \/ Header
    \/ BodyStruct
    \/ BodyValues
    \/ Body
    \/ Timeout
    \/ UnescapeQueryParams
    \/ Verbose
    \/ BasicAuth
    \/ Dispatch
    \/ DispatchScan

Spec == Init /\ [][Next]_vars

(***************************************************************************)
(* SpecPath: every url and every sequence of path parameter values within  *)
(* the bounds, as New and PathParams leave them, dispatched repeatedly     *)
(* against the server of the package's tests.                              *)
(***************************************************************************)
InitPath ==
    \E u \in Urls, params \in ParamSeqs :
        /\ pathParams = params
        /\ op = "Set"
        /\ url = u
        /\ method = "GET"
        /\ headers = {}
        /\ queryParams = {}
        /\ unescapeQueryParams = FALSE
        /\ httpcli = NoClient
        /\ proxyURL = ""
        /\ transport = NoTransport
        /\ timeout = 0
        /\ contentType = ""
        /\ verbose = FALSE
        /\ username = ""
        /\ password = ""
        /\ body = NilBody
        /\ bodyStruct = NilBody
        /\ bodyValues = NilBody
        /\ err = noError
        /\ res = <<>>
        /\ sent = <<>>
        /\ tbody = <<>>
        /\ encoded = {}
        /\ logged = <<>>
        /\ supplied = FALSE
        /\ ncalls = 0
        /\ nsets = 0

DispatchTest == DispatchVia(TestServer)
DispatchScanTest == DispatchScanVia(TestServer)

NextPath ==
    \/ DispatchTest
    \/ DispatchScanTest

SpecPath == InitPath /\ [][NextPath]_vars

(***************************************************************************)
(* Properties.                                                             *)
(***************************************************************************)
MethodErrors == {errorMethodIsEmpty, errMethodUnknown}
PathErrors == {errNoPathParamValueSet, errPathParamPassedIncorrect, errPathParamConflift}

\* The call got past the method and the path validation.
Validated(e) == e \notin MethodErrors \cup PathErrors \cup {panicIndexOutOfRange}

\* The segments of u that begin with ":", as indices into Split(u, "/").
ColonSegments(u) ==
    {i \in 1..Len(Split(u, urlSeparator)) : HasPrefix(Split(u, urlSeparator)[i], <<":">>)}

\* u with its i-th segment that begins with ":" replaced by the i-th value.
Substituted(u, params) ==
    LET segs == Split(u, urlSeparator)
        rank(i) == Cardinality({j \in ColonSegments(u) : j <= i})
    IN Join([i \in 1..Len(segs) |->
                IF i \in ColonSegments(u) THEN params[rank(i)] ELSE segs[i]],
            urlSeparator)

\* C1: a Dispatch of a url with N >= 1 segments that begin with ":" and k path
\* parameter values: with k = N there is no path error and url becomes the
\* url with the i-th such segment replaced by the i-th value; with k = 0 the
\* error is errNoPathParamValueSet; with any other k it is
\* errPathParamPassedIncorrect.
C1_SubstitutesBySegments ==
    [][(op' = "Dispatch" /\ ColonSegments(url) # {}) =>
          LET N == Cardinality(ColonSegments(url))
              k == Len(pathParams)
          IN /\ k = N => Validated(err') /\ url' = Substituted(url, pathParams)
             /\ k = 0 => err' = errNoPathParamValueSet
             /\ k \notin {0, N} => err' = errPathParamPassedIncorrect]_vars

\* C2: a Dispatch with an empty method returns errorMethodIsEmpty, one with
\* any other method outside the nine HTTP methods returns errMethodUnknown,
\* whatever the url, the path parameters and the bodies are, and sends nothing.
C2_MethodErrorFirst ==
    op = "Dispatch" =>
        /\ method = "" => err = errorMethodIsEmpty /\ sent = <<>>
        /\ (method # "" /\ method \notin {"GET", "POST", "PUT", "DELETE", "HEAD",
                                          "OPTIONS", "CONNECT", "TRACE", "PATCH"})
              => err = errMethodUnknown /\ sent = <<>>

\* A Dispatch with an unknown method on a builder whose url has a placeholder,
\* no path parameter value and a body.
C2_Witness ==
    /\ op = "Dispatch"
    /\ method = "test"
    /\ err = errMethodUnknown
    /\ Contains(url, urlPathParamSeparator)
    /\ pathParams = <<>>
    /\ bodyStruct # NilBody

\* The values of the Content-Type header that r.headers holds.
UserContentTypes == {kv[2] : kv \in {x \in headers : x[1] = "Content-Type"}}

NoContentType(req) == req.header["Content-Type"] = <<>>

OnlyUserContentType(req) ==
    \A i \in DOMAIN req.header["Content-Type"] :
        req.header["Content-Type"][i] \in UserContentTypes

\* The body precedence, for a Dispatch that got past validation; userHeader
\* says whether a request without a body source may carry the Content-Type
\* the caller set with Header.
BodyPrecedence(userHeader) ==
    (op = "Dispatch" /\ Validated(err)) =>
        IF body # NilBody
        THEN /\ encoded = {}
             /\ sent # <<>> =>
                   /\ sent[1].body = <<"reader", body>>
                   /\ OnlyUserContentType(sent[1])
        ELSE IF bodyStruct # NilBody
        THEN /\ encoded = {"json"}
             /\ sent # <<>> =>
                   /\ sent[1].body = <<"json", bodyStruct>>
                   /\ sent[1].header["Content-Type"] # <<>>
                   /\ sent[1].header["Content-Type"][1] = <<"application/json">>
        ELSE IF bodyValues # NilBody
        THEN /\ encoded = {"form"}
             /\ sent # <<>> =>
                   /\ sent[1].body = <<"form", bodyValues>>
                   /\ sent[1].header["Content-Type"] # <<>>
                   /\ sent[1].header["Content-Type"][1]
                         = <<"application/x-www-form-urlencoded">>
        ELSE /\ encoded = {}
             /\ sent # <<>> =>
                   /\ sent[1].body = <<>>
                   /\ IF userHeader THEN OnlyUserContentType(sent[1])
                      ELSE NoContentType(sent[1])

\* C3 as stated: exactly one body source is used, by the precedence explicit
\* stream, then struct (JSON, application/json), then form values
\* (application/x-www-form-urlencoded); with none the request has no body and
\* no Content-Type header.
C3_BodyPrecedenceOriginal == BodyPrecedence(FALSE)

\* C3, amended: the same precedence; with no body source the request has no
\* body and no Content-Type header other than one the caller set with Header.
C3_BodyPrecedence == BodyPrecedence(TRUE)

\* A request was sent for a builder with both a struct and form values.
C3_Witness ==
    /\ op = "Dispatch"
    /\ sent # <<>>
    /\ body = NilBody
    /\ bodyStruct = "obj"
    /\ bodyValues # NilBody

\* C4: DispatchScan with a nil target returns errorResponseStructIsNil, sends
\* nothing and leaves every field of the builder as it was.
C4_NilTargetRejected ==
    [][op' = "DispatchScan(nil)" =>
          /\ err' = errorResponseStructIsNil
          /\ sent' = <<>>
          /\ fields' = fields]_vars

\* DispatchScan(nil) on a builder with an unknown method and a url with a
\* placeholder that has no value.
C4_Witness ==
    /\ op = "DispatchScan(nil)"
    /\ err = errorResponseStructIsNil
    /\ method = "test"
    /\ Contains(url, urlPathParamSeparator)
    /\ pathParams = <<>>

\* C5: after a successful verbose Dispatch the transport's body was read to
\* its end, and the body of the returned response still yields, from its
\* current position, all the bytes the server sent, which are the bytes logged.
C5_VerboseBodyReadable ==
    (op = "Dispatch" /\ verbose /\ err = noError) =>
        /\ res # <<>> /\ tbody # <<>>
        /\ tbody[1].pos = Len(tbody[1].data)
        /\ res[1].Body = "buffer"
        /\ ~res[1].buffer.closed
        /\ ~ReadAll(res[1].buffer).err
        /\ ReadAll(res[1].buffer).bytes = tbody[1].data
        /\ logged # <<>>
        /\ logged[Len(logged)] = responseLog(tbody[1].data)

\* A successful verbose Dispatch whose response has a body.
C5_Witness ==
    /\ op = "Dispatch"
    /\ verbose
    /\ err = noError
    /\ tbody # <<>>
    /\ tbody[1].data # <<>>

\* C6: every Dispatch on a builder to which HTTPClient never supplied a client
\* sends through a client whose timeout is the current timeout if positive and
\* 30 seconds otherwise and whose transport routes through the current
\* proxyURL if that is not empty; a supplied client is used as it is.
C6_ClientFollowsSettings ==
    (op = "Dispatch" /\ sent # <<>>) =>
        /\ ~supplied =>
              /\ sent[1].client.Timeout = (IF timeout > 0 THEN timeout ELSE 30)
              /\ proxyURL # "" =>
                    sent[1].client.Transport = [kind |-> "proxy", proxy |-> proxyURL]
        /\ httpcli.by = "caller" => sent[1].client = CallerClient

\* C7: when the transport returned a response to a DispatchScan with a
\* non-nil target, the body stream of that response is closed when
\* DispatchScan returns.
C7_ScanClosesTransportBody ==
    (op = "DispatchScan(ptr)" /\ tbody # <<>>) => tbody[1].closed

\* C8: a Dispatch that returns a method error or a path parameter error sends
\* nothing and leaves url and pathParams as they were; url changes only in a
\* Dispatch (also the one DispatchScan runs) whose path validation succeeded.
C8_FailedValidationChangesNothing ==
    [][/\ (op' = "Dispatch" /\ err' \in MethodErrors \cup PathErrors) =>
             url' = url /\ pathParams' = pathParams /\ sent' = <<>>
       /\ url' # url =>
             op' \in {"Dispatch", "DispatchScan(ptr)"} /\ Validated(err')]_vars

\* A Dispatch that returned errPathParamPassedIncorrect.
C8_Witness ==
    /\ op = "Dispatch"
    /\ err = errPathParamPassedIncorrect
    /\ Contains(url, urlPathParamSeparator)
    /\ Len(pathParams) > 0

\* C9: the path validation of a Dispatch ends in success or in one of the
\* three path parameter errors: the loop never reads pathParams beyond its
\* length.
C9_NoIndexOutOfRange ==
    op = "Dispatch" => err # panicIndexOutOfRange

\* No value begins with ":" or holds "/:".
PlaceholderFree(params) ==
    \A i \in 1..Len(params) :
        /\ ~HasPrefix(params[i], pathParamIndicator)
        /\ ~Contains(params[i], urlPathParamSeparator)

DispatchOps == {"Dispatch", "DispatchScan(ptr)"}

\* C10: after a Dispatch that passed path validation with placeholder-free
\* values, url holds no "/:"; and from a url without "/:", every step leaves
\* url as it is and every Dispatch passes validation and targets that url.
C10_RepeatedDispatchStable ==
    /\ [](op \in DispatchOps /\ Validated(err) /\ PlaceholderFree(pathParams)
             => ~Contains(url, urlPathParamSeparator))
    /\ [][~Contains(url, urlPathParamSeparator) =>
             /\ url' = url
             /\ op' \in DispatchOps =>
                   /\ Validated(err')
                   /\ sent' # <<>> => sent'[1].url = url]_vars

\* The second Dispatch of a builder whose first Dispatch replaced ":a" by "x".
C10_Witness ==
    /\ op = "Dispatch"
    /\ ncalls = 2
    /\ err = noError
    /\ sent # <<>>
    /\ pathParams = <<<<"x">>>>
    /\ url = <<"/", "x">>

====
